---- MODULE Spec2Model ----
(***************************************************************************)
(* Model of examples/evaluator.py: get_accuracy, evaluate and main.        *)
(*                                                                         *)
(* A CSV file is a record  [exists, hasLineId, hasEventId, EventId]  where *)
(* EventId is the EventId column keyed by LineId (a function from the      *)
(* LineIds of the file to a label or Null, the empty cell pandas reads as  *)
(* NaN).  LineId is a unique key of a file, so a column is a function.     *)
(* A float is modelled by the exact fraction <<numerator, denominator>>    *)
(* in lowest terms; the counts are integers far below 2^53, so every sum   *)
(* of comb() values is exact, and 0.0 and 1.0 are <<0,1>> and <<1,1>>.     *)
(***************************************************************************)
EXTENDS Integers, Sequences, FiniteSets, TLC

\* ---------------------------------------------------------------- bounds
MaxLines == 3
NumLabels == 2
NumDatasets == 2
RunnerLines == 1

\* ------------------------------------------------------------- data model
Null == 0
Labels == 1 .. NumLabels
LineIds == 1 .. MaxLines
RunnerLineIds == 1 .. RunnerLines
RunnerLabels == {1}
datasets == 1 .. NumDatasets
Modes == <<"rawlog", "structured_csv">>

NoFile == [exists |-> FALSE, hasLineId |-> FALSE, hasEventId |-> FALSE, EventId |-> << >>]

Columns(ids, labels) == UNION {[s -> labels \cup {Null}] : s \in SUBSET ids}

CsvFiles(ids, labels) ==
    {[exists |-> TRUE, hasLineId |-> TRUE, hasEventId |-> TRUE, EventId |-> c] :
        c \in Columns(ids, labels)}
    \cup {[exists |-> TRUE, hasLineId |-> li, hasEventId |-> ei, EventId |-> << >>] :
            li \in BOOLEAN, ei \in BOOLEAN}

\* ------------------------------------------------------------- arithmetic
RECURSIVE GCD(_, _)
GCD(a, b) == IF b = 0 THEN a ELSE GCD(b, a % b)

Frac(n, d) == LET g == GCD(n, d) IN <<n \div g, d \div g>>
Zero == <<0, 1>>
One == <<1, 1>>
FAdd(x, y) == Frac(x[1] * y[2] + y[1] * x[2], x[2] * y[2])
FMul(x, y) == Frac(x[1] * y[1], x[2] * y[2])
FDiv(x, y) == Frac(x[1] * y[2], x[2] * y[1])
FLeq(x, y) == x[1] * y[2] <= y[1] * x[2]

\* faulty variant: the pair count without the division by two
comb2_unhalved(count) == count * (count - 1)

comb2(count) == (count * (count - 1)) \div 2

RECURSIVE SumOver(_, _)
SumOver(S, f) ==
    IF S = {} THEN 0
    ELSE LET x == CHOOSE y \in S : TRUE IN f[x] + SumOver(S \ {x}, f)

\* ----------------------------------------------------------- get_accuracy
value_counts(series) ==
    [l \in {series[i] : i \in DOMAIN series} \ {Null} |->
        Cardinality({i \in DOMAIN series : series[i] = l})]

PairsOf(valuecounts) ==
    SumOver(DOMAIN valuecounts,
            [l \in DOMAIN valuecounts |->
                IF valuecounts[l] > 1 THEN comb2(valuecounts[l]) ELSE 0])

Select(series, ids) == [i \in ids |-> series[i]]

logIdsOf(series_parsedlog, parsed_eventId) ==
    {i \in DOMAIN series_parsedlog : series_parsedlog[i] = parsed_eventId}

\* faulty variant: a predicted class counts as soon as it is pure
IsExact_pure(series_groundtruth, series_parsedlog, parsed_eventId) ==
    LET logIds == logIdsOf(series_parsedlog, parsed_eventId)
    IN  Cardinality(DOMAIN value_counts(Select(series_groundtruth, logIds))) = 1

\* faulty variant: the groundtruth label must also equal the predicted label
IsExact_byname(series_groundtruth, series_parsedlog, parsed_eventId) ==
    LET logIds == logIdsOf(series_parsedlog, parsed_eventId)
        series_gt_valuecounts == value_counts(Select(series_groundtruth, logIds))
    IN  /\ DOMAIN series_gt_valuecounts = {parsed_eventId}
        /\ Cardinality(logIds) =
              Cardinality({i \in DOMAIN series_groundtruth :
                              series_groundtruth[i] = parsed_eventId})

\* faulty variant: the class sizes are compared with <= instead of ==
IsExact_atmost(series_groundtruth, series_parsedlog, parsed_eventId) ==
    LET logIds == logIdsOf(series_parsedlog, parsed_eventId)
        series_gt_valuecounts == value_counts(Select(series_groundtruth, logIds))
    IN  /\ Cardinality(DOMAIN series_gt_valuecounts) = 1
        /\ LET groundtruth_eventId == CHOOSE g \in DOMAIN series_gt_valuecounts : TRUE
           IN  Cardinality(logIds) <=
                 Cardinality({i \in DOMAIN series_groundtruth :
                                 series_groundtruth[i] = groundtruth_eventId})

IsExact(series_groundtruth, series_parsedlog, parsed_eventId) ==
    LET logIds == logIdsOf(series_parsedlog, parsed_eventId)
        series_gt_valuecounts == value_counts(Select(series_groundtruth, logIds))
    IN  /\ Cardinality(DOMAIN series_gt_valuecounts) = 1
        /\ LET groundtruth_eventId == CHOOSE g \in DOMAIN series_gt_valuecounts : TRUE
           IN  Cardinality(logIds) =
                 Cardinality({i \in DOMAIN series_groundtruth :
                                 series_groundtruth[i] = groundtruth_eventId})

\* faulty variant: numerator and denominator exchanged
Ratio_inverted(num, den) == IF den # 0 /\ num # 0 THEN Frac(den, num) ELSE Zero

\* faulty variant: a zero denominator resolves to 1.0
Ratio_one(num, den) == IF den # 0 THEN Frac(num, den) ELSE One

Ratio(num, den) == IF den # 0 THEN Frac(num, den) ELSE Zero

\* faulty variant: the factor 2.0 is missing
FMeasure_unscaled(precision, recall) ==
    IF FAdd(precision, recall) # Zero
    THEN FDiv(FMul(precision, recall), FAdd(precision, recall))
    ELSE Zero

FMeasure(precision, recall) ==
    IF FAdd(precision, recall) # Zero
    THEN FDiv(FMul(FMul(<<2, 1>>, precision), recall), FAdd(precision, recall))
    ELSE Zero

get_accuracy(series_groundtruth, series_parsedlog) ==
    LET series_parsedlog_valuecounts == value_counts(series_parsedlog)
        real_pairs == PairsOf(value_counts(series_groundtruth))
        parsed_pairs == PairsOf(series_parsedlog_valuecounts)
        events == DOMAIN series_parsedlog_valuecounts
        accurate_events ==
            SumOver(events,
                    [e \in events |->
                        IF IsExact(series_groundtruth, series_parsedlog, e)
                        THEN Cardinality(logIdsOf(series_parsedlog, e)) ELSE 0])
        accurate_pairs ==
            SumOver(events,
                    [e \in events |->
                        PairsOf(value_counts(Select(series_groundtruth,
                                                    logIdsOf(series_parsedlog, e))))])
        precision == Ratio(accurate_pairs, parsed_pairs)
        recall == Ratio(accurate_pairs, real_pairs)
    IN  [real_pairs |-> real_pairs,
         parsed_pairs |-> parsed_pairs,
         accurate_pairs |-> accurate_pairs,
         accurate_events |-> accurate_events,
         size |-> Cardinality(DOMAIN series_groundtruth),
         precision |-> precision,
         recall |-> recall,
         f_measure |-> FMeasure(precision, recall),
         accuracy |-> Ratio(accurate_events, Cardinality(DOMAIN series_groundtruth))]

\* ------------------------------------------- get_accuracy with its debug flag
\* The loop of lines 54-72, one predicted event id at a time.  acc holds
\* accurate_events, accurate_pairs and what has been printed; a printed line is
\* <<parsed_eventId, groundtruth event ids seen, logIds.size>> and the order of
\* the lines is not kept.
\* faulty variant: a class reported in debug mode is skipped by the pair count
LoopBody_continue(acc, series_groundtruth, series_parsedlog, parsed_eventId, debug) ==
    LET logIds == logIdsOf(series_parsedlog, parsed_eventId)
        series_gt_valuecounts == value_counts(Select(series_groundtruth, logIds))
        error == ~IsExact(series_groundtruth, series_parsedlog, parsed_eventId)
    IN  IF error /\ debug
        THEN [acc EXCEPT !.printed = @ \cup
                 {<<parsed_eventId, DOMAIN series_gt_valuecounts, Cardinality(logIds)>>}]
        ELSE [accurate_events |-> acc.accurate_events + (IF error THEN 0 ELSE Cardinality(logIds)),
              accurate_pairs |-> acc.accurate_pairs + PairsOf(series_gt_valuecounts),
              printed |-> acc.printed]

LoopBody(acc, series_groundtruth, series_parsedlog, parsed_eventId, debug) ==
    LET logIds == logIdsOf(series_parsedlog, parsed_eventId)
        series_gt_valuecounts == value_counts(Select(series_groundtruth, logIds))
        error == ~IsExact(series_groundtruth, series_parsedlog, parsed_eventId)
    IN  [accurate_events |-> acc.accurate_events + (IF error THEN 0 ELSE Cardinality(logIds)),
         accurate_pairs |-> acc.accurate_pairs + PairsOf(series_gt_valuecounts),
         printed |-> IF error /\ debug
                     THEN acc.printed \cup
                            {<<parsed_eventId, DOMAIN series_gt_valuecounts, Cardinality(logIds)>>}
                     ELSE acc.printed]

RECURSIVE Loop(_, _, _, _, _)
Loop(acc, events, series_groundtruth, series_parsedlog, debug) ==
    IF events = {} THEN acc
    ELSE LET parsed_eventId == CHOOSE e \in events : TRUE
         IN  Loop(LoopBody(acc, series_groundtruth, series_parsedlog, parsed_eventId, debug),
                  events \ {parsed_eventId}, series_groundtruth, series_parsedlog, debug)

get_accuracy_debug(series_groundtruth, series_parsedlog, debug) ==
    LET real_pairs == PairsOf(value_counts(series_groundtruth))
        parsed_pairs == PairsOf(value_counts(series_parsedlog))
        acc == Loop([accurate_events |-> 0, accurate_pairs |-> 0, printed |-> {}],
                    DOMAIN value_counts(series_parsedlog),
                    series_groundtruth, series_parsedlog, debug)
        precision == Ratio(acc.accurate_pairs, parsed_pairs)
        recall == Ratio(acc.accurate_pairs, real_pairs)
    IN  [printed |-> acc.printed,
         scores |->
            [real_pairs |-> real_pairs,
             parsed_pairs |-> parsed_pairs,
             accurate_pairs |-> acc.accurate_pairs,
             accurate_events |-> acc.accurate_events,
             size |-> Cardinality(DOMAIN series_groundtruth),
             precision |-> precision,
             recall |-> recall,
             f_measure |-> FMeasure(precision, recall),
             accuracy |-> Ratio(acc.accurate_events, Cardinality(DOMAIN series_groundtruth))]]

\* --------------------------------------------------------------- evaluate
\* faulty variant: null groundtruth labels are kept
NotNull_keep(column) == column

NotNull(column) == Select(column, {i \in DOMAIN column : column[i] # Null})

common_lineids(gt_column, parsed_column) ==
    DOMAIN NotNull(gt_column) \cap DOMAIN parsed_column

NoScores == << >>

Idle ==
    [status |-> "none", series_groundtruth |-> << >>, series_parsedlog |-> << >>,
     counted |-> FALSE, scores |-> NoScores]

Raised(name) == [Idle EXCEPT !.status = name]

\* faulty variant: the LineId check is missing
evaluate_nocheck(groundtruth, parsedresult) ==
    IF ~groundtruth.exists \/ ~parsedresult.exists THEN Raised("FileNotFoundError")
    ELSE IF ~groundtruth.hasEventId \/ ~parsedresult.hasEventId THEN Raised("KeyError")
    ELSE LET ids == common_lineids(groundtruth.EventId, parsedresult.EventId)
             series_groundtruth == Select(groundtruth.EventId, ids)
             series_parsedlog == Select(parsedresult.EventId, ids)
         IN  [status |-> "ok",
              series_groundtruth |-> series_groundtruth,
              series_parsedlog |-> series_parsedlog,
              counted |-> TRUE,
              scores |-> get_accuracy(series_groundtruth, series_parsedlog)]

evaluate(groundtruth, parsedresult) ==
    IF ~groundtruth.exists \/ ~parsedresult.exists THEN Raised("FileNotFoundError")
    ELSE IF ~groundtruth.hasLineId \/ ~parsedresult.hasLineId THEN Raised("ValueError")
    ELSE IF ~groundtruth.hasEventId \/ ~parsedresult.hasEventId THEN Raised("KeyError")
    ELSE LET ids == common_lineids(groundtruth.EventId, parsedresult.EventId)
             series_groundtruth == Select(groundtruth.EventId, ids)
             series_parsedlog == Select(parsedresult.EventId, ids)
         IN  [status |-> "ok",
              series_groundtruth |-> series_groundtruth,
              series_parsedlog |-> series_parsedlog,
              counted |-> TRUE,
              scores |-> get_accuracy(series_groundtruth, series_parsedlog)]

\* ------------------------------------------------------------------- state
VARIABLES pc, dataset, isfile, gt_csv, parsed_csv, evaluation, results_list,
          evaluation_results, exception

vars == <<pc, dataset, isfile, gt_csv, parsed_csv, evaluation, results_list,
          evaluation_results, exception>>

RunnerFiles == CsvFiles(RunnerLineIds, RunnerLabels)
EvalFiles == CsvFiles(LineIds, Labels) \cup {NoFile}

Row(d, mode, ev) ==
    [Dataset |-> d, Mode |-> mode, F1 |-> ev.scores.f_measure, Accuracy |-> ev.scores.accuracy]

\* faulty variant: both modes look at the rawlog path
os_path_isfile_raw(d, mode) == isfile[<<d, Modes[1]>>]

os_path_isfile(d, mode) == isfile[<<d, mode>>]

\* ------------------------------------------------------------------- main
\* pc is "for" at the head of the loop over datasets, a mode while the block of
\* that mode is next for the current dataset, and "done" after the summary.
\* isfile is what os.path.isfile answers for each result path.  The content of a
\* file is the environment's choice, made when main comes to the path (gt_csv at
\* line 137, the result file when evaluate reads it).  evaluation is the call of
\* evaluate for the current pair; an exception of evaluate is not caught in main,
\* so it ends the run: exception is set and no action is enabled any more.
Init ==
    /\ pc = "for"
    /\ dataset = 0
    /\ isfile \in [datasets \X {Modes[1], Modes[2]} -> BOOLEAN]
    /\ gt_csv = NoFile
    /\ parsed_csv = NoFile
    /\ evaluation = Idle
    /\ results_list = << >>
    /\ evaluation_results = << >>
    /\ exception = "none"

NextDataset ==
    /\ pc = "for" /\ exception = "none"
    /\ dataset < NumDatasets
    /\ dataset' = dataset + 1
    /\ gt_csv' \in RunnerFiles \cup {NoFile}
    /\ parsed_csv' = NoFile
    /\ evaluation' = Idle
    /\ pc' = Modes[1]
    /\ UNCHANGED <<isfile, results_list, evaluation_results, exception>>

\* faulty variant: an exception of evaluate is caught and the loop goes on
EvaluateMode_continue(mode, after) ==
    /\ pc = mode /\ exception = "none"
    /\ \/ /\ os_path_isfile(dataset, mode)
          /\ \E f \in RunnerFiles :
                LET ev == evaluate(gt_csv, f)
                IN  /\ parsed_csv' = f
                    /\ evaluation' = ev
                    /\ pc' = after
                    /\ UNCHANGED exception
                    /\ results_list' =
                          IF ev.status = "ok"
                          THEN Append(results_list, Row(dataset, mode, ev))
                          ELSE results_list
       \/ /\ ~os_path_isfile(dataset, mode)
          /\ parsed_csv' = NoFile
          /\ evaluation' = Idle
          /\ pc' = after
          /\ UNCHANGED <<results_list, exception>>
    /\ UNCHANGED <<dataset, isfile, gt_csv, evaluation_results>>

EvaluateMode(mode, after) ==
    /\ pc = mode /\ exception = "none"
    /\ \/ /\ os_path_isfile(dataset, mode)
          /\ \E f \in RunnerFiles :
                LET ev == evaluate(gt_csv, f)
                IN  /\ parsed_csv' = f
                    /\ evaluation' = ev
                    /\ \/ /\ ev.status = "ok"
                          /\ results_list' = Append(results_list, Row(dataset, mode, ev))
                          /\ pc' = after
                          /\ UNCHANGED exception
                       \/ /\ ev.status # "ok"
                          /\ exception' = ev.status
                          /\ UNCHANGED <<pc, results_list>>
       \/ /\ ~os_path_isfile(dataset, mode)
          /\ parsed_csv' = NoFile
          /\ evaluation' = Idle
          /\ pc' = after
          /\ UNCHANGED <<results_list, exception>>
    /\ UNCHANGED <<dataset, isfile, gt_csv, evaluation_results>>

EvaluateRaw == EvaluateMode(Modes[1], Modes[2])

EvaluateStructured == EvaluateMode(Modes[2], "for")

\* faulty variant: the summary file is written even when there is no row
Summaries_always ==
    /\ pc = "for" /\ exception = "none"
    /\ dataset = NumDatasets
    /\ evaluation_results' = Append(evaluation_results, results_list)
    /\ pc' = "done"
    /\ UNCHANGED <<dataset, isfile, gt_csv, parsed_csv, evaluation, results_list, exception>>

Summaries ==
    /\ pc = "for" /\ exception = "none"
    /\ dataset = NumDatasets
    /\ \/ /\ results_list # << >>
          /\ evaluation_results' = Append(evaluation_results, results_list)
       \/ /\ results_list = << >>
          /\ UNCHANGED evaluation_results
    /\ pc' = "done"
    /\ UNCHANGED <<dataset, isfile, gt_csv, parsed_csv, evaluation, results_list, exception>>

Next == NextDataset \/ EvaluateRaw \/ EvaluateStructured \/ Summaries

Spec == Init /\ [][Next]_vars

FairSpec == Spec /\ WF_vars(Next)

\* ------------------------------------------------ evaluate called directly
\* one call of evaluate on any two files, existing or not
InitEval ==
    /\ pc = "call"
    /\ dataset = 0
    /\ isfile = [p \in datasets \X {Modes[1], Modes[2]} |-> FALSE]
    /\ gt_csv \in EvalFiles
    /\ parsed_csv \in EvalFiles
    /\ evaluation = Idle
    /\ results_list = << >>
    /\ evaluation_results = << >>
    /\ exception = "none"

Evaluate ==
    /\ pc = "call"
    /\ evaluation' = evaluate(gt_csv, parsed_csv)
    /\ exception' = IF evaluation'.status = "ok" THEN "none" ELSE evaluation'.status
    /\ pc' = "return"
    /\ UNCHANGED <<dataset, isfile, gt_csv, parsed_csv, results_list, evaluation_results>>

NextEval == Evaluate

SpecEval == InitEval /\ [][NextEval]_vars

\* -------------------------------------------- get_accuracy called directly
\* two series over the same index; either may hold Null
InitAccuracy ==
    /\ pc = "call"
    /\ dataset = 0
    /\ isfile = [p \in datasets \X {Modes[1], Modes[2]} |-> FALSE]
    /\ gt_csv = NoFile
    /\ parsed_csv = NoFile
    /\ \E ids \in SUBSET LineIds :
          \E g \in [ids -> Labels \cup {Null}] : \E p \in [ids -> Labels \cup {Null}] :
              evaluation = [Idle EXCEPT !.series_groundtruth = g, !.series_parsedlog = p]
    /\ results_list = << >>
    /\ evaluation_results = << >>
    /\ exception = "none"

GetAccuracy ==
    /\ pc = "call"
    /\ evaluation' =
          [evaluation EXCEPT
              !.status = "ok",
              !.counted = TRUE,
              !.scores = get_accuracy(evaluation.series_groundtruth,
                                      evaluation.series_parsedlog)]
    /\ pc' = "return"
    /\ UNCHANGED <<dataset, isfile, gt_csv, parsed_csv, results_list,
                   evaluation_results, exception>>

NextAccuracy == GetAccuracy

SpecAccuracy == InitAccuracy /\ [][NextAccuracy]_vars

\* ------------------------------- get_accuracy called with a debug argument
\* evaluation also records the debug argument and the lines printed
InitDebug ==
    /\ pc = "call"
    /\ dataset = 0
    /\ isfile = [p \in datasets \X {Modes[1], Modes[2]} |-> FALSE]
    /\ gt_csv = NoFile
    /\ parsed_csv = NoFile
    /\ \E ids \in SUBSET LineIds :
          \E g \in [ids -> Labels \cup {Null}] : \E p \in [ids -> Labels \cup {Null}] :
              \E debug \in BOOLEAN :
                  evaluation = [status |-> "none", series_groundtruth |-> g,
                                series_parsedlog |-> p, counted |-> FALSE,
                                scores |-> NoScores, debug |-> debug, printed |-> {}]
    /\ results_list = << >>
    /\ evaluation_results = << >>
    /\ exception = "none"

GetAccuracyDebug ==
    /\ pc = "call"
    /\ LET out == get_accuracy_debug(evaluation.series_groundtruth,
                                     evaluation.series_parsedlog, evaluation.debug)
       IN  evaluation' =
              [evaluation EXCEPT
                  !.status = "ok",
                  !.counted = TRUE,
                  !.scores = out.scores,
                  !.printed = out.printed]
    /\ pc' = "return"
    /\ UNCHANGED <<dataset, isfile, gt_csv, parsed_csv, results_list,
                   evaluation_results, exception>>

NextDebug == GetAccuracyDebug

SpecDebug == InitDebug /\ [][NextDebug]_vars

\* ================================================================= claims
series_gt == evaluation.series_groundtruth
series_parsed == evaluation.series_parsedlog
scores == evaluation.scores
Scored == evaluation.status = "ok"
aligned == DOMAIN series_gt

\* Two lines carry the same label when both are labelled and the labels agree.
SameLabel(series, s) == \A i, j \in s : series[i] # Null /\ series[i] = series[j]
LinePairs(ids) == {s \in SUBSET ids : Cardinality(s) = 2}
TogetherIn(series) == {s \in LinePairs(DOMAIN series) : SameLabel(series, s)}
ClassesOf(series) ==
    {{i \in DOMAIN series : series[i] = l} : l \in {series[i] : i \in DOMAIN series} \ {Null}}

\* C1: accurate_pairs is the number of unordered pairs of distinct aligned lines
\* that share a groundtruth label and share a predicted label; real_pairs and
\* parsed_pairs are the numbers of pairs sharing a groundtruth label, respectively
\* a predicted label.
ThmC1_PairCounts ==
    Scored =>
        /\ scores.accurate_pairs =
              Cardinality(TogetherIn(series_gt) \cap TogetherIn(series_parsed))
        /\ scores.real_pairs = Cardinality(TogetherIn(series_gt))
        /\ scores.parsed_pairs = Cardinality(TogetherIn(series_parsed))

WitC1_PairCounts ==
    /\ Scored
    /\ scores.accurate_pairs = 1
    /\ scores.parsed_pairs = 3
    /\ scores.real_pairs = 1

\* C2: accurate_events is the number of lines lying in predicted classes whose
\* member set equals the member set of a groundtruth class.
ExactLines ==
    {i \in aligned :
        /\ series_parsed[i] # Null
        /\ {j \in aligned : series_parsed[j] = series_parsed[i]} \in ClassesOf(series_gt)}

ThmC2_ExactMatch == Scored => scores.accurate_events = Cardinality(ExactLines)

\* one predicted class is exact, another is pure but misses a true member
WitC2_ExactMatch ==
    /\ Scored
    /\ scores.accurate_events = 1
    /\ \E P \in ClassesOf(series_parsed) : \E G \in ClassesOf(series_gt) :
          P \subseteq G /\ P # G

\* C3 as stated: predicted = groundtruth gives 1.0 on all four metrics.
CexC3_IdenticalAllOne ==
    (Scored /\ series_parsed = series_gt) =>
        /\ scores.precision = One
        /\ scores.recall = One
        /\ scores.f_measure = One
        /\ scores.accuracy = One

\* C3 amended: when predicted = groundtruth (aligned, so without null labels), precision, recall and f_measure are
\* 1.0 if some two aligned lines share a label and 0.0 otherwise, and accuracy is
\* 1.0 if at least one line is aligned and 0.0 otherwise.
ThmC3_Identical ==
    (Scored /\ series_parsed = series_gt) =>
        /\ TogetherIn(series_gt) # {} =>
              scores.precision = One /\ scores.recall = One /\ scores.f_measure = One
        /\ TogetherIn(series_gt) = {} =>
              scores.precision = Zero /\ scores.recall = Zero /\ scores.f_measure = Zero
        /\ aligned # {} => scores.accuracy = One
        /\ aligned = {} => scores.accuracy = Zero

WitC3_Identical ==
    /\ Scored
    /\ series_parsed = series_gt
    /\ Cardinality(aligned) = MaxLines
    /\ TogetherIn(series_gt) # {}
    /\ Cardinality(ClassesOf(series_gt)) = 2
    /\ scores.f_measure = One

\* C4: the four metrics lie in [0, 1]; accurate_pairs <= parsed_pairs,
\* accurate_pairs <= real_pairs and accurate_events <= number of groundtruth lines.
InUnit(x) == FLeq(Zero, x) /\ FLeq(x, One)

ThmC4_Range ==
    Scored =>
        /\ InUnit(scores.precision)
        /\ InUnit(scores.recall)
        /\ InUnit(scores.f_measure)
        /\ InUnit(scores.accuracy)
        /\ scores.accurate_pairs <= scores.parsed_pairs
        /\ scores.accurate_pairs <= scores.real_pairs
        /\ scores.accurate_events <= scores.size

WitC4_Range ==
    /\ Scored
    /\ scores.precision # Zero /\ scores.precision # One
    /\ scores.recall = One
    /\ scores.f_measure # Zero /\ scores.f_measure # One
    /\ scores.accuracy = Zero

\* C5: the labelings passed to get_accuracy are defined over exactly the line ids
\* that have a non-null groundtruth label and appear in the predicted input; each
\* keeps its groundtruth label and its predicted label; no other id is scored.
WellFormed(f) == f.exists /\ f.hasLineId /\ f.hasEventId

ScoredIds ==
    {i \in DOMAIN gt_csv.EventId : gt_csv.EventId[i] # Null} \cap DOMAIN parsed_csv.EventId

ThmC5_Alignment ==
    /\ Scored =>
        /\ DOMAIN series_gt = ScoredIds
        /\ DOMAIN series_parsed = ScoredIds
        /\ \A i \in ScoredIds :
              series_gt[i] = gt_csv.EventId[i] /\ series_parsed[i] = parsed_csv.EventId[i]
        /\ scores.size = Cardinality(ScoredIds)
    /\ (pc = "return" /\ WellFormed(gt_csv) /\ WellFormed(parsed_csv)) => Scored

\* a null groundtruth line, a line only in the groundtruth and a line only in
\* the predicted input are all left out
WitC5_Alignment ==
    /\ Scored
    /\ ScoredIds # {}
    /\ \E i \in DOMAIN gt_csv.EventId \cap DOMAIN parsed_csv.EventId : gt_csv.EventId[i] = Null
    /\ DOMAIN gt_csv.EventId \ DOMAIN parsed_csv.EventId # {}
    /\ \E i \in ScoredIds : parsed_csv.EventId[i] = Null

\* C6: with an empty intersection of line ids scoring completes without raising
\* and the four metrics are 0.0; any zero denominator resolves to 0.0.
ThmC6_ZeroFill ==
    /\ (pc = "return" /\ WellFormed(gt_csv) /\ WellFormed(parsed_csv) /\ ScoredIds = {}) =>
          /\ Scored /\ exception = "none"
          /\ scores.precision = Zero /\ scores.recall = Zero
          /\ scores.f_measure = Zero /\ scores.accuracy = Zero
    /\ Scored =>
          /\ scores.parsed_pairs = 0 => scores.precision = Zero
          /\ scores.real_pairs = 0 => scores.recall = Zero
          /\ (scores.precision = Zero /\ scores.recall = Zero) => scores.f_measure = Zero
          /\ scores.size = 0 => scores.accuracy = Zero

WitC6_ZeroFill ==
    /\ pc = "return" /\ Scored
    /\ ScoredIds = {}
    /\ Cardinality(DOMAIN gt_csv.EventId) >= 2
    /\ Cardinality(DOMAIN parsed_csv.EventId) >= 1
    /\ \E i \in DOMAIN gt_csv.EventId : gt_csv.EventId[i] # Null
    /\ scores.accuracy = Zero /\ scores.f_measure = Zero

\* C7: an injective renaming of the predicted labels, or of the groundtruth
\* labels, leaves the four counts and the four metrics unchanged.
Renamings == {r \in [Labels -> Labels] : \A a, b \in Labels : r[a] = r[b] => a = b}
Rename(r, series) ==
    [i \in DOMAIN series |-> IF series[i] = Null THEN Null ELSE r[series[i]]]

ThmC7_Renaming ==
    Scored =>
        \A r \in Renamings :
            /\ get_accuracy(series_gt, Rename(r, series_parsed)) = scores
            /\ get_accuracy(Rename(r, series_gt), series_parsed) = scores

\* a perfect partition under different names scores 1.0 on every metric
WitC7_Renaming ==
    /\ Scored
    /\ Cardinality(aligned) = MaxLines
    /\ Cardinality(ClassesOf(series_gt)) = 2
    /\ \A i \in aligned : series_parsed[i] # Null /\ series_parsed[i] # series_gt[i]
    /\ scores.precision = One /\ scores.recall = One
    /\ scores.f_measure = One /\ scores.accuracy = One

\* ------------------------------------------------------------ batch runner
\* the (dataset, mode) pairs in the order main reaches them
AllPairs == [k \in 1 .. 2 * NumDatasets |-> <<(k + 1) \div 2, Modes[((k - 1) % 2) + 1]>>]

\* how many of them main has passed (the pair an exception stopped is not passed)
NumPassed ==
    CASE pc = "for" -> 2 * dataset
      [] pc = Modes[1] -> 2 * (dataset - 1)
      [] pc = Modes[2] -> 2 * (dataset - 1) + 1
      [] pc = "done" -> 2 * NumDatasets
      [] OTHER -> 0

FileExists(p) == isfile[p]
RowPairs == [k \in 1 .. Len(results_list) |-> <<results_list[k].Dataset, results_list[k].Mode>>]

NoResultFile == \A p \in DOMAIN isfile : ~isfile[p]

SummaryWritten ==
    /\ Len(evaluation_results) <= 1
    /\ pc # "done" => evaluation_results = << >>
    /\ pc = "done" =>
          /\ dataset = NumDatasets
          /\ evaluation_results # << >> <=> results_list # << >>
          /\ evaluation_results # << >> => evaluation_results = <<results_list>>
    /\ NoResultFile =>
          results_list = << >> /\ evaluation_results = << >> /\ exception = "none"

LacksLineId(f) == f.exists /\ ~f.hasLineId

ThmC10_MissingLineId ==
    (pc \in {Modes[1], Modes[2]} /\ parsed_csv.exists
        /\ (LacksLineId(gt_csv) \/ LacksLineId(parsed_csv))) =>
        /\ exception # "none"
        /\ gt_csv.exists => exception = "ValueError"
        /\ evaluation.status = exception
        /\ ~evaluation.counted
        /\ evaluation.scores = NoScores
        /\ \A k \in 1 .. Len(results_list) : RowPairs[k] # <<dataset, pc>>
        /\ RowPairs = SelectSeq(SubSeq(AllPairs, 1, NumPassed), FileExists)

WitC10_MissingLineId ==
    /\ exception = "ValueError"
    /\ pc = Modes[2]
    /\ LacksLineId(parsed_csv) /\ ~LacksLineId(gt_csv)
    /\ Len(results_list) = 2
    /\ dataset = 2

\* C11 as stated: when an evaluate call has raised and main has stopped, the row
\* of every other (dataset, mode) pair whose result file exists has been
\* produced and written to the summary output.
Stopped == ~ENABLED Next
FailedCall == evaluation.status \notin {"ok", "none"}
WrittenPairs ==
    IF evaluation_results = << >> THEN {}
    ELSE {<<evaluation_results[1][k].Dataset, evaluation_results[1][k].Mode>> :
            k \in 1 .. Len(evaluation_results[1])}

InputShapeError == evaluation.status \in {"ValueError", "KeyError"}

MembersOf(e) == {i \in aligned : series_parsed[i] = e}
GtLabelsOf(e) == {series_gt[i] : i \in MembersOf(e)} \ {Null}
ExactMatch(e) ==
    \E g \in GtLabelsOf(e) :
        /\ GtLabelsOf(e) = {g}
        /\ Cardinality(MembersOf(e)) = Cardinality({i \in aligned : series_gt[i] = g})
PredictedLabels == {series_parsed[i] : i \in aligned} \ {Null}

ThmC12_DebugTrace ==
    Scored =>
        /\ evaluation.printed =
              IF evaluation.debug
              THEN {<<e, GtLabelsOf(e), Cardinality(MembersOf(e))>> :
                        e \in {l \in PredictedLabels : ~ExactMatch(l)}}
              ELSE {}
        /\ scores = get_accuracy_debug(series_gt, series_parsed, ~evaluation.debug).scores
        /\ scores = get_accuracy(series_gt, series_parsed)

\* debug on, one class exact and not printed, one pure class that misses a
\* member of its groundtruth class printed
WitC12_DebugTrace ==
    /\ Scored
    /\ evaluation.debug
    /\ \A i \in aligned : series_gt[i] # Null
    /\ Cardinality(evaluation.printed) = 1
    /\ \E e \in PredictedLabels : ExactMatch(e)
    /\ \E e \in PredictedLabels : ~ExactMatch(e) /\ Cardinality(GtLabelsOf(e)) = 1
    /\ scores.accurate_events = 1

\* C13: when both labelings give a non-null label to every line, get_accuracy with
\* groundtruth and predicted exchanged exchanges precision and recall and leaves
\* accurate_pairs, accurate_events, f_measure and accuracy unchanged.
AllLabelled == \A i \in aligned : series_gt[i] # Null /\ series_parsed[i] # Null
swapped == get_accuracy(series_parsed, series_gt)

ThmC13_RoleSwap ==
    (Scored /\ AllLabelled) =>
        /\ swapped.precision = scores.recall
        /\ swapped.recall = scores.precision
        /\ swapped.accurate_pairs = scores.accurate_pairs
        /\ swapped.accurate_events = scores.accurate_events
        /\ swapped.f_measure = scores.f_measure
        /\ swapped.accuracy = scores.accuracy

\* precision and recall differ, so the exchange is visible
WitC13_RoleSwap ==
    /\ Scored /\ AllLabelled
    /\ Cardinality(aligned) = MaxLines
    /\ scores.precision = One
    /\ scores.recall # One /\ scores.recall # Zero
    /\ swapped.precision = scores.recall

====
